---- MODULE Spec2Model ----
(***************************************************************************)
(* Explosion / reassembly state machine of the particle tree               *)
(* (src/main.js: animate, triggerExplosion, the pool rebuilds and the GUI  *)
(* handlers that feed them).                                               *)
(*                                                                         *)
(* Arithmetic.  The program computes in IEEE doubles; the model computes   *)
(* in fixed point and truncates toward zero where a double would round.    *)
(*   lengths : 1 unit = 0.05 world units  (0.1 world units = 2 units)      *)
(*   time    : 1 tick = 500 ms            (holdDuration 1000 ms = 2 ticks) *)
(*             a pending timer carries the ticks left until it is due; the *)
(*             timer queue is kept in firing order (deadline, then age)    *)
(*             and due timers run before the clock advances                *)
(*   factors : hundredths                 (0.95 = 95, 0.08 = 8)            *)
(*   group parallax strengths : tenths    (1.5 = 15)                       *)
(*   tilt    : 1 unit = 0.25 degrees      (25 degrees = 100 units)         *)
(*   touch positions, velocity and rotation offset : hundredths            *)
(*   group parallax targets : thousandths (strength times input)           *)
(*   angles  : the argument of Math.sin is counted in quarter periods      *)
(* Mesh rotation, the smoothed group transform and the showcase box's own  *)
(* scale and opacity animation are written by animate but read by nothing  *)
(* modelled here; they are not part of the state.                          *)
(***************************************************************************)
EXTENDS Integers, Sequences, FiniteSets, TLC

VARIABLES
    state,                  \* "IDLE" | "EXPLODING" | "RETURNING"
    returnTimer,            \* handle of the hold timer, 0 for null
    rebuildTimeout,         \* handle of the debounce timer, 0 for null
    timers,                 \* pending setTimeout callbacks, in firing order
    showcaseBoxShouldShow,
    showcaseImagesLoaded,
    showcaseTextures,       \* showcaseTextures.length
    imageLoadPending,       \* an image set is being loaded
    CONFIG,
    particles,              \* tree pool
    testParticles,          \* test pool
    testObjectGroups,       \* count of each test object group
    mouse,
    camera,                 \* "orthographic" | "perspective"
    lastEvent,              \* history: the handler that ran last
    targetRotation,         \* group parallax target, rotation
    targetPosition,         \* group parallax target, position
    deviceOrientation,      \* tilt, normalised like mouse
    baselineOrientation,    \* <<beta, gamma>> or Null
    useDeviceOrientation,
    deviceOrientationEnabled,
    readingSinceEnabled,    \* history: a valid reading arrived since enabling
    objects,                \* CONFIG.objects[i].count
    explosionTargets,       \* history: the targets the last tree build generated
    testExplosionTargets,   \* history: the targets the last test build generated
    touchRotationOffset,    \* rotation accumulated from touch drags
    touchVelocity,
    isTouching,
    lastTouchPos,           \* <<x, y>> or Null
    storedMomentum,         \* <<x, y>> or Null
    touchMoveCount,
    sampled,                \* the point sampleTreePosition returned last
    generated,              \* the points generateExplosionTargets returned last
    currentImageSet,        \* id of the selected image set, 0 before any
    textureSets,            \* showcaseTextures, each texture by the set it is from
    imageLoads,             \* image set loads in flight
    rewardImageVisible      \* v4: the reward image has the class 'visible'

targetVars == <<targetRotation, targetPosition>>

trackerVars == <<deviceOrientation, baselineOrientation, useDeviceOrientation,
                 deviceOrientationEnabled, readingSinceEnabled>>

touchVars == <<touchRotationOffset, touchVelocity, isTouching, lastTouchPos,
               storedMomentum, touchMoveCount>>

buildVars == <<objects, explosionTargets, testExplosionTargets>>

coreVars == <<state, returnTimer, rebuildTimeout, timers, showcaseBoxShouldShow,
              showcaseImagesLoaded, showcaseTextures, imageLoadPending, CONFIG,
              particles, testParticles, testObjectGroups, mouse, camera>>

inputVars == <<targetVars, trackerVars, buildVars, touchVars>>

samplerVars == <<sampled, generated>>

imageVars == <<currentImageSet, textureSets, imageLoads, rewardImageVisible>>

vars == <<state, returnTimer, rebuildTimeout, timers, showcaseBoxShouldShow,
          showcaseImagesLoaded, showcaseTextures, imageLoadPending, CONFIG,
          particles, testParticles, testObjectGroups, mouse, camera,
          lastEvent, targetVars, trackerVars, buildVars, touchVars,
          samplerVars, imageVars>>

----------------------------------------------------------------------------
(* Bounds of the exploration *)

MaxTimers == 3          \* setTimeout callbacks pending at once
MaxGroups == 1          \* test object groups
MaxTouchOffset == 1     \* touch rotation offset, hundredths
MaxLoads == 2           \* image lists being loaded at once

(* Inputs *)
States == {"IDLE", "EXPLODING", "RETURNING"}
HoldDurations == {2, 4}
ImageDelays == {1, 2}
AnimationSpeeds == {50, 100}
ParallaxStrengths == {13}                 \* 0.65 world units
Sensitivities == {2}                    \* halves: 0.5 + random() lies in [0.5, 1.5)
PositionStrengths == {0, 10}            \* tenths
MousePositions == {<<1, -1>>}           \* normalised device coordinates
EventTargets == {"canvas", "gui"}
Phases == {0, 1}                        \* quarter periods of Math.sin
GroupCounts == {0, 1}
TextureCounts == {0, 1}
ViewTypes == {"perspective", "isometric"}
CountScale == 2                         \* counts: 1 unit = half a particle
TreeObjects == <<2>>                    \* CONFIG.objects[i].count
ObjectLists == {<<>>, <<0>>, <<2>>, <<2, 2>>, <<4, 2>>, <<1, 1>>, <<3>>}
TreePositions == {<<2, -1, 0>>}
CandidateTargets == {<<2, 7, 0>>, <<1, 3, 0>>}
InnerRadii == {0, 5}

----------------------------------------------------------------------------
(* Fixed-point helpers *)

TruncDiv(a, b) == IF a >= 0 THEN a \div b ELSE -((-a) \div b)

Scale(x, num, den) == TruncDiv(x * num, den)

SinTable == <<0, 100, 0, -100>>

Sin100(phase) == SinTable[(phase % 4) + 1]

RECURSIVE SumSeq(_)
SumSeq(s) == IF s = <<>> THEN 0 ELSE Head(s) + SumSeq(Tail(s))

DistanceSq(a, b) ==
    (a[1] - b[1]) * (a[1] - b[1]) + (a[2] - b[2]) * (a[2] - b[2])
        + (a[3] - b[3]) * (a[3] - b[3])

Lerp(p, v, alpha) ==
    <<p[1] + Scale(v[1] - p[1], alpha, 100),
      p[2] + Scale(v[2] - p[2], alpha, 100),
      p[3] + Scale(v[3] - p[3], alpha, 100)>>

MultiplyScalar(v, num) ==
    <<Scale(v[1], num, 100), Scale(v[2], num, 100), Scale(v[3], num, 100)>>

ZeroVector == <<0, 0, 0>>

Null == <<>>                            \* null; a reading v is <<v>>

----------------------------------------------------------------------------
(* Timers: setTimeout / clearTimeout of the host.  A handle is an opaque   *)
(* positive integer no pending timer and no handle variable holds.         *)

FreeHandle(ts, held) ==
    CHOOSE h \in 1 .. (Len(ts) + Cardinality(held) + 1) :
        /\ h \notin held
        /\ \A i \in 1 .. Len(ts) : ts[i].id # h
        /\ \A g \in 1 .. (h - 1) : g \in held \/ \E i \in 1 .. Len(ts) : ts[i].id = g

InsertAt(ts, k, t) ==
    [j \in 1 .. (Len(ts) + 1) |->
        IF j < k THEN ts[j] ELSE IF j = k THEN t ELSE ts[j - 1]]

(* The new timer runs after every pending timer due no later than it. *)
QueuePlace(ts, delay) ==
    1 + Cardinality({j \in 1 .. Len(ts) : ts[j].remaining <= delay})

SetTimeout(ts, kind, delay, held) ==
    InsertAt(ts, QueuePlace(ts, delay),
             [id |-> FreeHandle(ts, held), kind |-> kind, remaining |-> delay,
              cur |-> TRUE, dead |-> FALSE])

ClearTimeoutKeepsHold(ts, id) == SelectSeq(ts, LAMBDA t : t.id # id \/ t.kind = "hold")

ClearTimeout(ts, id) == SelectSeq(ts, LAMBDA t : t.id # id)

IsDue(ts, kind) ==
    /\ ts # <<>>
    /\ ts[1].remaining = 0
    /\ ts[1].kind = kind

RemoveAt(ts, i) == [j \in 1 .. (Len(ts) - 1) |-> IF j < i THEN ts[j] ELSE ts[j + 1]]

(* History marks on pending timers: cur = armed by the latest explosion,   *)
(* dead = a hold timer whose explosion was ended by a forced return.       *)
MarkOld(ts) == [i \in 1 .. Len(ts) |-> [ts[i] EXCEPT !.cur = FALSE]]

MarkDead(ts) ==
    [i \in 1 .. Len(ts) |->
        IF ts[i].kind = "hold" THEN [ts[i] EXCEPT !.dead = TRUE] ELSE ts[i]]

(* lastEvent names the handler that ran last: "explode", "forceReturn" and  *)
(* "ignored" for the three outcomes of a triggerExplosion call that passed *)
(* the GUI test, "hold" and "reveal" for the timer callbacks, "frame" for  *)
(* animate, "sample" and "generate" for the two samplers, "other" for      *)
(* everything else.                                                        *)

----------------------------------------------------------------------------
(* Particles *)

NewParticle(pos, target, sens, visible) ==
    [originalPos |-> pos,
     explosionTarget |-> target,
     position |-> pos,
     individualParallaxShift |-> ZeroVector,
     baseParallaxSensitivity |-> sens,
     visible |-> visible,
     fresh |-> TRUE]                    \* history: made by the pool's last build

FloatOffset(phase, index) ==
    Scale(Sin100(phase + index) * CONFIG.idleFloatAmount, 1, 100)

IdleStep(p, index, phase) ==
    [p EXCEPT !.position =
        <<p.originalPos[1],
          p.originalPos[2] + FloatOffset(phase, index),
          p.originalPos[3]>>]

ExplodingShift(p) ==
    LET s == p.individualParallaxShift
        parallaxX == Scale(mouse[1] * CONFIG.explodedParallaxStrength
                                * p.baseParallaxSensitivity, 1, 2)
        parallaxY == Scale(mouse[2] * CONFIG.explodedParallaxStrength
                                * p.baseParallaxSensitivity, 1, 2)
    IN  IF CONFIG.explodedParallaxEnabled
        THEN <<s[1] + Scale(parallaxX - s[1], 8, 100),
               s[2] + Scale(parallaxY - s[2], 8, 100),
               s[3]>>
        ELSE <<Scale(s[1], 95, 100), Scale(s[2], 95, 100), s[3]>>

ExplodingStep(p, index, phase) ==
    LET shift == ExplodingShift(p)
        target == <<p.explosionTarget[1] + shift[1],
                    p.explosionTarget[2] + shift[2],
                    p.explosionTarget[3]>>
        moved == Lerp(p.position, target, CONFIG.animationSpeed)
    IN  [p EXCEPT
            !.individualParallaxShift = shift,
            !.position =
                <<moved[1] + Scale(Sin100(phase + index), 1, 500),
                  moved[2] + FloatOffset(2 * phase, index),
                  moved[3] + Scale(Sin100(phase + index + 1), 1, 500)>>]

ReturningStep(p) ==
    [p EXCEPT
        !.position = Lerp(p.position, p.originalPos, CONFIG.animationSpeed),
        !.individualParallaxShift = MultiplyScalar(p.individualParallaxShift, 95)]

AnimateParticle(p, index, phase) ==
    IF state = "IDLE" THEN IdleStep(p, index, phase)
    ELSE IF state = "EXPLODING" THEN ExplodingStep(p, index, phase)
    ELSE IF state = "RETURNING" THEN ReturningStep(p)
    ELSE p

AnimatePool(pool, phase) ==
    [i \in 1 .. Len(pool) |-> AnimateParticle(pool[i], i - 1, phase)]

ReturnThreshold == 2

NotReturnedAtThreshold(p) ==
    DistanceSq(p.position, p.originalPos) >= ReturnThreshold * ReturnThreshold

NotReturned(p) ==
    DistanceSq(p.position, p.originalPos) > ReturnThreshold * ReturnThreshold

AllReturned(tree, test) ==
    /\ \A i \in 1 .. Len(tree) : ~NotReturned(tree[i])
    /\ \A i \in 1 .. Len(test) : ~NotReturned(test[i])

----------------------------------------------------------------------------
(* Pool construction and rebuild *)

Samples(n, S) == [1 .. n -> S]

HasTestObjects == SumSeq(testObjectGroups) > 0

(* for (let i = 0; i < count; i++) *)
Iterations(count) == (count + CountScale - 1) \div CountScale

(* generateExplosionTargets: the points a target can be, and how many *)
ShellTargets ==
    {t \in CandidateTargets :
        /\ DistanceSq(t, ZeroVector) >= CONFIG.explosionInnerRadius * CONFIG.explosionInnerRadius
        /\ DistanceSq(t, ZeroVector) <= CONFIG.explosionOuterRadius * CONFIG.explosionOuterRadius}

TargetCount(defs) == Iterations(SumSeq(defs))

RECURSIVE ParticleCount(_)
ParticleCount(defs) ==
    IF defs = <<>> THEN 0 ELSE Iterations(Head(defs)) + ParticleCount(Tail(defs))

(* array[index] of a JavaScript array: undefined past the end *)
ItemAt(array, index) == IF index + 1 \in DOMAIN array THEN array[index + 1] ELSE Null

RECURSIVE CreateParticles(_, _, _, _, _, _)
CreateParticles(defs, explosionTargetIndex, pos, targets, sn, visible) ==
    IF defs = <<>> THEN <<>>
    ELSE LET n == Iterations(Head(defs))
             made == [i \in 1 .. n |->
                        NewParticle(pos[explosionTargetIndex + i],
                                    ItemAt(targets, explosionTargetIndex + i - 1),
                                    sn[explosionTargetIndex + i], visible)]
         IN  made \o CreateParticles(Tail(defs), explosionTargetIndex + n,
                                     pos, targets, sn, visible)

SetVisible(pool, visible) ==
    [i \in 1 .. Len(pool) |-> [pool[i] EXCEPT !.visible = visible]]

(* History: what survives a build is no longer fresh. *)
Aged(pool) == [i \in 1 .. Len(pool) |-> [pool[i] EXCEPT !.fresh = FALSE]]

KeepPool(pool) == pool

(* forEach(remove) and length = 0 *)
ClearPool(pool) == <<>>

RebuildTreeParticles(pos, tg, sn) ==
    ClearPool(Aged(particles))
        \o CreateParticles(objects, 0, pos, tg, sn,
                           CONFIG.showTreeParticles /\ ~HasTestObjects)

(* A group's count comes from a slider of step 1. *)
TestDefs == [g \in 1 .. Len(testObjectGroups) |-> testObjectGroups[g] * CountScale]

RebuildAllTestParticles(pos, tg, sn) ==
    ClearPool(Aged(testParticles)) \o CreateParticles(TestDefs, 0, pos, tg, sn, TRUE)

----------------------------------------------------------------------------
(* Camera *)

UpdateCamera(newState) ==
    LET targetViewType == IF newState = "EXPLODING"
                          THEN CONFIG.explodedViewType
                          ELSE CONFIG.viewType
    IN  IF targetViewType = "isometric" THEN "orthographic" ELSE "perspective"

----------------------------------------------------------------------------
(* triggerExplosion *)

TargetInGui(target) == target = "gui"

ForcedReturnAnyState == CONFIG.reassembleOnClick

ForcedReturnAnySetting == state = "EXPLODING"

ForcedReturnApplies == state = "EXPLODING" /\ CONFIG.reassembleOnClick

CanExplode == state = "IDLE" \/ state = "RETURNING"

KeepReturnTimer(ts) == ts

CancelReturnTimer(ts) ==
    IF returnTimer # 0 THEN ClearTimeout(ts, returnTimer) ELSE ts

ResetShifts(pool) ==
    [i \in 1 .. Len(pool) |-> [pool[i] EXCEPT !.individualParallaxShift = ZeroVector]]

ShowcaseReady == showcaseImagesLoaded /\ showcaseTextures > 0

ArmRevealTimer(ts) ==
    IF ShowcaseReady
    THEN SetTimeout(ts, "reveal", CONFIG.imageDelay, {rebuildTimeout})
    ELSE ts

ArmNoHoldTimer(ts) == ts

ArmHoldTimerFixed(ts) == SetTimeout(ts, "hold", 2, {rebuildTimeout})

ArmHoldTimer(ts) == SetTimeout(ts, "hold", CONFIG.holdDuration, {rebuildTimeout})

IgnoreTrigger(target) ==
    /\ lastEvent' = IF TargetInGui(target) THEN "other" ELSE "ignored"
    /\ UNCHANGED <<samplerVars, imageVars>>
    /\ UNCHANGED <<state, returnTimer, rebuildTimeout, timers, showcaseBoxShouldShow,
                   showcaseImagesLoaded, showcaseTextures, imageLoadPending, CONFIG,
                   particles, testParticles, testObjectGroups, mouse, camera>>
    /\ UNCHANGED <<targetVars, trackerVars, buildVars, touchVars>>

ForceReturn(target) ==
    /\ timers' = MarkDead(CancelReturnTimer(timers))
    /\ returnTimer' = 0
    /\ showcaseBoxShouldShow' = FALSE
    /\ state' = "RETURNING"
    /\ camera' = UpdateCamera("RETURNING")
    /\ lastEvent' = "forceReturn"
    /\ UNCHANGED <<samplerVars, imageVars>>
    /\ UNCHANGED <<rebuildTimeout, showcaseImagesLoaded, showcaseTextures,
                   imageLoadPending, CONFIG, particles, testParticles,
                   testObjectGroups, mouse>>
    /\ UNCHANGED <<targetVars, trackerVars, buildVars, touchVars>>

Explode(target) ==
    LET revealed == ArmRevealTimer(MarkOld(CancelReturnTimer(timers)))
        armed == ArmHoldTimer(revealed)
    IN  /\ Len(armed) <= MaxTimers
        /\ timers' = armed
        /\ returnTimer' = FreeHandle(revealed, {rebuildTimeout})
        /\ state' = "EXPLODING"
        /\ camera' = UpdateCamera("EXPLODING")
        /\ particles' = ResetShifts(particles)
        /\ lastEvent' = "explode"
        /\ UNCHANGED <<samplerVars, imageVars>>
        /\ UNCHANGED <<rebuildTimeout, showcaseBoxShouldShow, showcaseImagesLoaded,
                       showcaseTextures, imageLoadPending, CONFIG, testParticles,
                       testObjectGroups, mouse>>
        /\ UNCHANGED <<targetVars, trackerVars, buildVars, touchVars>>

TriggerExplosion(target) ==
    IF TargetInGui(target) THEN IgnoreTrigger(target)
    ELSE IF ForcedReturnApplies THEN ForceReturn(target)
    ELSE IF ~CanExplode THEN IgnoreTrigger(target)
    ELSE Explode(target)

----------------------------------------------------------------------------
(* setTimeout callbacks *)

RevealShowsAlways == TRUE

RevealShows == state = "EXPLODING"

RevealTimerFires ==
    /\ IsDue(timers, "reveal")
    /\ timers' = Tail(timers)
    /\ showcaseBoxShouldShow' = IF RevealShows THEN TRUE ELSE showcaseBoxShouldShow
    /\ lastEvent' = "reveal"
    /\ UNCHANGED <<samplerVars, imageVars>>
    /\ UNCHANGED <<state, returnTimer, rebuildTimeout, showcaseImagesLoaded,
                   showcaseTextures, imageLoadPending, CONFIG, particles,
                   testParticles, testObjectGroups, mouse, camera>>
    /\ UNCHANGED <<targetVars, trackerVars, buildVars, touchVars>>

HoldTimerFiresKeepsFlag ==
    /\ IsDue(timers, "hold")
    /\ timers' = Tail(timers)
    /\ state' = "RETURNING"
    /\ camera' = UpdateCamera("RETURNING")
    /\ returnTimer' = 0
    /\ lastEvent' = "hold"
    /\ UNCHANGED <<samplerVars, imageVars>>
    /\ UNCHANGED <<rebuildTimeout, showcaseBoxShouldShow, showcaseImagesLoaded,
                   showcaseTextures, imageLoadPending, CONFIG, particles,
                   testParticles, testObjectGroups, mouse>>
    /\ UNCHANGED <<targetVars, trackerVars, buildVars, touchVars>>

HoldTimerFires ==
    /\ IsDue(timers, "hold")
    /\ timers' = Tail(timers)
    /\ showcaseBoxShouldShow' = FALSE
    /\ state' = "RETURNING"
    /\ camera' = UpdateCamera("RETURNING")
    /\ returnTimer' = 0
    /\ lastEvent' = "hold"
    /\ UNCHANGED <<samplerVars, imageVars>>
    /\ UNCHANGED <<rebuildTimeout, showcaseImagesLoaded, showcaseTextures,
                   imageLoadPending, CONFIG, particles, testParticles,
                   testObjectGroups, mouse>>
    /\ UNCHANGED <<targetVars, trackerVars, buildVars, touchVars>>

RebuildTimerFires ==
    /\ IsDue(timers, "rebuild")
    /\ timers' = Tail(timers)
    /\ \E pos \in Samples(ParticleCount(TestDefs), TreePositions),
          tg \in Samples(TargetCount(TestDefs), ShellTargets),
          sn \in Samples(ParticleCount(TestDefs), Sensitivities) :
            /\ testParticles' = RebuildAllTestParticles(pos, tg, sn)
            /\ testExplosionTargets' = tg
    /\ particles' = SetVisible(particles, ~HasTestObjects /\ CONFIG.showTreeParticles)
    /\ lastEvent' = "other"
    /\ UNCHANGED <<samplerVars, imageVars>>
    /\ UNCHANGED <<state, returnTimer, rebuildTimeout, showcaseBoxShouldShow,
                   showcaseImagesLoaded, showcaseTextures, imageLoadPending,
                   CONFIG, testObjectGroups, mouse, camera>>
    /\ UNCHANGED <<targetVars, trackerVars, touchVars, objects, explosionTargets>>

Tick ==
    /\ \A i \in 1 .. Len(timers) : timers[i].remaining > 0
    /\ timers' = [i \in 1 .. Len(timers) |->
                    [timers[i] EXCEPT !.remaining = timers[i].remaining - 1]]
    /\ lastEvent' = "other"
    /\ UNCHANGED <<samplerVars, imageVars>>
    /\ UNCHANGED <<state, returnTimer, rebuildTimeout, showcaseBoxShouldShow,
                   showcaseImagesLoaded, showcaseTextures, imageLoadPending, CONFIG,
                   particles, testParticles, testObjectGroups, mouse, camera>>
    /\ UNCHANGED <<targetVars, trackerVars, buildVars, touchVars>>

----------------------------------------------------------------------------
(* Pointer and device orientation input *)

GetMouse == IF useDeviceOrientation THEN deviceOrientation ELSE mouse

(* Touch drag: what a frame does to the velocity and the rotation offset  *)
Abs(x) == IF x < 0 THEN -x ELSE x

TouchSpinFriction == 95

TouchTiltReturn == 98

NextTouchOffset ==
    LET movedY == touchRotationOffset[2] + touchVelocity[2]
    IN  <<touchRotationOffset[1] + touchVelocity[1],
          IF isTouching THEN movedY ELSE Scale(movedY, TouchTiltReturn, 100)>>

UndampedTouchVelocity(fingerIsStill) == touchVelocity

NextTouchVelocity(fingerIsStill) ==
    LET slowed == IF ~isTouching \/ fingerIsStill
                  THEN <<Scale(touchVelocity[1], TouchSpinFriction, 100),
                         Scale(touchVelocity[2], TouchSpinFriction, 100)>>
                  ELSE touchVelocity
    IN  <<slowed[1],
          IF ~isTouching /\ NextTouchOffset[2] = 0 THEN 0 ELSE slowed[2]>>

(* Group parallax targets of the frame *)
InputScale == 100

ParallaxActiveIdleSetting == CONFIG.parallaxEnabled

ParallaxActive ==
    IF state = "EXPLODING" THEN CONFIG.explodedParallaxEnabled
                           ELSE CONFIG.parallaxEnabled

ParallaxTargetRotation ==
    LET isExploding == state = "EXPLODING"
        parallaxX == IF isExploding THEN CONFIG.explodedParallaxStrengthX
                                    ELSE CONFIG.parallaxStrengthX
        parallaxY == IF isExploding THEN CONFIG.explodedParallaxStrengthY
                                    ELSE CONFIG.parallaxStrengthY
        input == GetMouse
        offset == NextTouchOffset
    IN  IF ParallaxActive
        THEN <<input[2] * InputScale * parallaxX + offset[2] * parallaxX,
               input[1] * InputScale * parallaxY + offset[1] * parallaxY>>
        ELSE <<0, 0>>

ParallaxTargetPosition ==
    LET input == GetMouse
    IN  IF ParallaxActive
        THEN <<input[1] * InputScale * CONFIG.parallaxPositionStrengthX,
               input[2] * InputScale * CONFIG.parallaxPositionStrengthY>>
        ELSE <<0, 0>>

----------------------------------------------------------------------------
(* animate: one frame *)

ConvergenceCheckedAnyState == TRUE

ConvergenceCheckedNever == FALSE

ConvergenceChecked == state = "RETURNING"

Animate(phase) ==
    LET tree == AnimatePool(particles, phase)
        test == AnimatePool(testParticles, phase)
        allReturned == state = "RETURNING" => AllReturned(tree, test)
        toIdle == ConvergenceChecked /\ allReturned
    IN  /\ \E fingerIsStill \in (IF isTouching THEN BOOLEAN ELSE {FALSE}) :
               touchVelocity' = NextTouchVelocity(fingerIsStill)
        /\ touchRotationOffset' = NextTouchOffset
        /\ Abs(NextTouchOffset[1]) <= MaxTouchOffset
        /\ Abs(NextTouchOffset[2]) <= MaxTouchOffset
        /\ targetRotation' = ParallaxTargetRotation
        /\ targetPosition' = ParallaxTargetPosition
        /\ particles' = tree
        /\ testParticles' = test
        /\ state' = IF toIdle THEN "IDLE" ELSE state
        /\ camera' = IF toIdle THEN UpdateCamera("IDLE") ELSE camera
        /\ lastEvent' = "frame"
        /\ UNCHANGED <<samplerVars, imageVars>>
        /\ UNCHANGED <<returnTimer, rebuildTimeout, timers, showcaseBoxShouldShow,
                       showcaseImagesLoaded, showcaseTextures, imageLoadPending,
                       CONFIG, testObjectGroups, mouse>>
        /\ UNCHANGED <<trackerVars, buildVars, isTouching, lastTouchPos,
                       storedMomentum, touchMoveCount>>

----------------------------------------------------------------------------
(* GUI handlers and input events *)

Configure(field, val) ==
    /\ CONFIG' = [CONFIG EXCEPT ![field] = val]
    /\ lastEvent' = "other"
    /\ UNCHANGED <<samplerVars, imageVars>>
    /\ UNCHANGED <<state, returnTimer, rebuildTimeout, timers, showcaseBoxShouldShow,
                   showcaseImagesLoaded, showcaseTextures, imageLoadPending,
                   particles, testParticles, testObjectGroups, mouse, camera>>
    /\ UNCHANGED <<targetVars, trackerVars, buildVars, touchVars>>

SetReassembleOnClick == \E val \in BOOLEAN : Configure("reassembleOnClick", val)

SetHoldDuration == \E val \in HoldDurations : Configure("holdDuration", val)

SetImageDelay == \E val \in ImageDelays : Configure("imageDelay", val)

SetAnimationSpeed == \E val \in AnimationSpeeds : Configure("animationSpeed", val)

SetExplodedParallaxEnabled ==
    \E val \in BOOLEAN : Configure("explodedParallaxEnabled", val)

SetParallaxEnabled == \E val \in BOOLEAN : Configure("parallaxEnabled", val)

SetParallaxPositionStrengthX ==
    \E val \in PositionStrengths : Configure("parallaxPositionStrengthX", val)

SetExplodedParallaxStrength ==
    \E val \in ParallaxStrengths : Configure("explodedParallaxStrength", val)

SetExplosionInnerRadius ==
    \E val \in InnerRadii : Configure("explosionInnerRadius", val)

MouseMove ==
    /\ mouse' \in MousePositions
    /\ lastEvent' = "other"
    /\ UNCHANGED <<samplerVars, imageVars>>
    /\ UNCHANGED <<state, returnTimer, rebuildTimeout, timers, showcaseBoxShouldShow,
                   showcaseImagesLoaded, showcaseTextures, imageLoadPending, CONFIG,
                   particles, testParticles, testObjectGroups, camera>>
    /\ UNCHANGED <<targetVars, trackerVars, buildVars, touchVars>>

(* Touch drag *)
TouchPoints == {<<0, 0>>, <<1, 0>>}

BlendFrames == 5

AxisSeparationThreshold == 2

HandleTouchStart(touch) ==
    /\ lastTouchPos' = touch
    /\ isTouching' = TRUE
    /\ storedMomentum' = touchVelocity
    /\ touchMoveCount' = 0
    /\ lastEvent' = "other"
    /\ UNCHANGED <<samplerVars, imageVars>>
    /\ UNCHANGED <<state, returnTimer, rebuildTimeout, timers, showcaseBoxShouldShow,
                   showcaseImagesLoaded, showcaseTextures, imageLoadPending, CONFIG,
                   particles, testParticles, testObjectGroups, mouse, camera,
                   touchRotationOffset, touchVelocity>>
    /\ UNCHANGED <<targetVars, trackerVars, buildVars>>

Filtered(deltaX, deltaY) ==
    IF Abs(deltaX) > Abs(deltaY) * AxisSeparationThreshold THEN <<deltaX, 0>>
    ELSE IF Abs(deltaY) > Abs(deltaX) * AxisSeparationThreshold THEN <<0, deltaY>>
    ELSE <<deltaX, Scale(deltaY, 50, 100)>>

HandleTouchMove(touch) ==
    /\ IF lastTouchPos = Null
       THEN UNCHANGED <<touchVelocity, touchMoveCount, lastTouchPos>>
       ELSE LET filtered == Filtered(touch[1] - lastTouchPos[1],
                                     touch[2] - lastTouchPos[2])
                count == touchMoveCount + 1
            IN  /\ touchMoveCount' = IF count > BlendFrames THEN BlendFrames + 1 ELSE count
                /\ touchVelocity' =
                       IF count <= BlendFrames /\ storedMomentum # Null
                       THEN <<Scale(storedMomentum[1], BlendFrames - count, BlendFrames)
                                  + Scale(filtered[1], count, BlendFrames),
                              Scale(storedMomentum[2], BlendFrames - count, BlendFrames)
                                  + Scale(filtered[2], count, BlendFrames)>>
                       ELSE filtered
                /\ lastTouchPos' = touch
    /\ lastEvent' = "other"
    /\ UNCHANGED <<samplerVars, imageVars>>
    /\ UNCHANGED <<state, returnTimer, rebuildTimeout, timers, showcaseBoxShouldShow,
                   showcaseImagesLoaded, showcaseTextures, imageLoadPending, CONFIG,
                   particles, testParticles, testObjectGroups, mouse, camera,
                   touchRotationOffset, isTouching, storedMomentum>>
    /\ UNCHANGED <<targetVars, trackerVars, buildVars>>

HandleTouchEnd ==
    /\ lastTouchPos' = Null
    /\ isTouching' = FALSE
    /\ lastEvent' = "other"
    /\ UNCHANGED <<samplerVars, imageVars>>
    /\ UNCHANGED <<state, returnTimer, rebuildTimeout, timers, showcaseBoxShouldShow,
                   showcaseImagesLoaded, showcaseTextures, imageLoadPending, CONFIG,
                   particles, testParticles, testObjectGroups, mouse, camera,
                   touchRotationOffset, touchVelocity, storedMomentum, touchMoveCount>>
    /\ UNCHANGED <<targetVars, trackerVars, buildVars>>

(* Device orientation *)
TiltRange == 100

TiltReadings == {0, 200}

Readings == {<<v>> : v \in TiltReadings} \cup {Null}

OrientationEvents == [beta : Readings, gamma : Readings]

LevelEvent == [beta |-> <<0>>, gamma |-> <<0>>]

Clamp(x) == IF x > 1 THEN 1 ELSE IF x < -1 THEN -1 ELSE x

Recalibrate(base, reading) == base + Scale(reading - base, 5, 1000)

SetDeviceOrientationEnabled ==
    \E enabled \in BOOLEAN :
        /\ deviceOrientationEnabled' = enabled
        /\ useDeviceOrientation' = IF enabled THEN useDeviceOrientation ELSE FALSE
        /\ baselineOrientation' = IF enabled THEN baselineOrientation ELSE Null
        /\ readingSinceEnabled' = (enabled /\ deviceOrientationEnabled /\ readingSinceEnabled)
        /\ lastEvent' = "other"
        /\ UNCHANGED <<samplerVars, imageVars>>
        /\ UNCHANGED <<state, returnTimer, rebuildTimeout, timers, showcaseBoxShouldShow,
                       showcaseImagesLoaded, showcaseTextures, imageLoadPending, CONFIG,
                       particles, testParticles, testObjectGroups, mouse, camera,
                       deviceOrientation, targetVars, buildVars, touchVars>>

ValidReading(event) == event.gamma # Null /\ event.beta # Null

OrientationAccepted(event) == deviceOrientationEnabled /\ ValidReading(event)

TakeReading(accepted, event) ==
    /\ IF accepted
       THEN LET beta == event.beta[1]
                gamma == event.gamma[1]
                first == IF baselineOrientation = Null
                         THEN [beta |-> beta, gamma |-> gamma]
                         ELSE [beta |-> baselineOrientation[1],
                               gamma |-> baselineOrientation[2]]
                base == [beta |-> Recalibrate(first.beta, beta),
                         gamma |-> Recalibrate(first.gamma, gamma)]
                gammaDelta == gamma - base.gamma
                betaDelta == beta - base.beta
            IN  /\ baselineOrientation' = <<base.beta, base.gamma>>
                /\ deviceOrientation' = <<Clamp(TruncDiv(gammaDelta, TiltRange)),
                                          -Clamp(TruncDiv(betaDelta, TiltRange))>>
                /\ useDeviceOrientation' = TRUE
       ELSE UNCHANGED <<baselineOrientation, deviceOrientation, useDeviceOrientation>>
    /\ readingSinceEnabled' =
           (readingSinceEnabled \/ (deviceOrientationEnabled /\ ValidReading(event)))
    /\ lastEvent' = "other"
    /\ UNCHANGED <<samplerVars, imageVars>>
    /\ UNCHANGED <<state, returnTimer, rebuildTimeout, timers, showcaseBoxShouldShow,
                   showcaseImagesLoaded, showcaseTextures, imageLoadPending, CONFIG,
                   particles, testParticles, testObjectGroups, mouse, camera,
                   deviceOrientationEnabled, targetVars, buildVars, touchVars>>

HandleDeviceOrientation(event) == TakeReading(OrientationAccepted(event), event)

(* The tracker before the user setting existed: no enabled flag. *)
HandleDeviceOrientationLegacy(event) == TakeReading(ValidReading(event), event)

CameraFor(viewType) ==
    IF viewType = "isometric" THEN "orthographic" ELSE "perspective"

ViewTypeAppliesNever == FALSE

ViewTypeApplies == state # "EXPLODING"

ExplodedViewTypeApplies == state = "EXPLODING"

SetViewType ==
    \E val \in ViewTypes :
        /\ CONFIG' = [CONFIG EXCEPT !.viewType = val]
        /\ camera' = IF ViewTypeApplies THEN CameraFor(val) ELSE camera
        /\ lastEvent' = "other"
        /\ UNCHANGED <<samplerVars, imageVars>>
        /\ UNCHANGED <<state, returnTimer, rebuildTimeout, timers,
                       showcaseBoxShouldShow, showcaseImagesLoaded, showcaseTextures,
                       imageLoadPending, particles, testParticles,
                       testObjectGroups, mouse>>
        /\ UNCHANGED <<targetVars, trackerVars, buildVars, touchVars>>

SetExplodedViewType ==
    \E val \in ViewTypes :
        /\ CONFIG' = [CONFIG EXCEPT !.explodedViewType = val]
        /\ camera' = IF ExplodedViewTypeApplies THEN CameraFor(val) ELSE camera
        /\ lastEvent' = "other"
        /\ UNCHANGED <<samplerVars, imageVars>>
        /\ UNCHANGED <<state, returnTimer, rebuildTimeout, timers,
                       showcaseBoxShouldShow, showcaseImagesLoaded, showcaseTextures,
                       imageLoadPending, particles, testParticles,
                       testObjectGroups, mouse>>
        /\ UNCHANGED <<targetVars, trackerVars, buildVars, touchVars>>

(* Tree geometry change: rebuildAllParticles *)
RebuildAllParticles ==
    /\ \E pos \in Samples(ParticleCount(objects), TreePositions),
          tg \in Samples(TargetCount(objects), ShellTargets),
          sn \in Samples(ParticleCount(objects), Sensitivities) :
            /\ particles' = SetVisible(RebuildTreeParticles(pos, tg, sn),
                                       ~HasTestObjects /\ CONFIG.showTreeParticles)
            /\ explosionTargets' = tg
    /\ \E pos \in Samples(ParticleCount(TestDefs), TreePositions),
          tg \in Samples(TargetCount(TestDefs), ShellTargets),
          sn \in Samples(ParticleCount(TestDefs), Sensitivities) :
            /\ testParticles' = RebuildAllTestParticles(pos, tg, sn)
            /\ testExplosionTargets' = tg
    /\ lastEvent' = "other"
    /\ UNCHANGED <<samplerVars, imageVars>>
    /\ UNCHANGED <<state, returnTimer, rebuildTimeout, timers, showcaseBoxShouldShow,
                   showcaseImagesLoaded, showcaseTextures, imageLoadPending, CONFIG,
                   testObjectGroups, mouse, camera>>
    /\ UNCHANGED <<targetVars, trackerVars, touchVars, objects>>

DebouncedRebuildAll(ts) ==
    SetTimeout(IF rebuildTimeout # 0 THEN ClearTimeout(ts, rebuildTimeout) ELSE ts,
               "rebuild", 1, {returnTimer})

GroupsChanged(groups) ==
    LET armed == DebouncedRebuildAll(timers)
    IN  /\ Len(armed) <= MaxTimers
        /\ testObjectGroups' = groups
        /\ timers' = armed
        /\ rebuildTimeout' = FreeHandle(
               IF rebuildTimeout # 0 THEN ClearTimeout(timers, rebuildTimeout) ELSE timers,
               {returnTimer})
        /\ lastEvent' = "other"
        /\ UNCHANGED <<samplerVars, imageVars>>
        /\ UNCHANGED <<state, returnTimer, showcaseBoxShouldShow,
                       showcaseImagesLoaded, showcaseTextures, imageLoadPending,
                       CONFIG, particles, testParticles, mouse, camera>>
        /\ UNCHANGED <<targetVars, trackerVars, buildVars, touchVars>>

SetShowTreeParticles ==
    \E val \in BOOLEAN :
        /\ CONFIG' = [CONFIG EXCEPT !.showTreeParticles = val]
        /\ particles' = SetVisible(particles, val /\ ~HasTestObjects)
        /\ lastEvent' = "other"
        /\ UNCHANGED <<samplerVars, imageVars>>
        /\ UNCHANGED <<state, returnTimer, rebuildTimeout, timers,
                       showcaseBoxShouldShow, showcaseImagesLoaded, showcaseTextures,
                       imageLoadPending, testParticles, testObjectGroups, mouse,
                       camera>>
        /\ UNCHANGED <<targetVars, trackerVars, buildVars, touchVars>>

AddObjectGroup ==
    /\ Len(testObjectGroups) < MaxGroups
    /\ testObjectGroups' = Append(testObjectGroups, 0)
    /\ lastEvent' = "other"
    /\ UNCHANGED <<samplerVars, imageVars>>
    /\ UNCHANGED <<state, returnTimer, rebuildTimeout, timers, showcaseBoxShouldShow,
                   showcaseImagesLoaded, showcaseTextures, imageLoadPending, CONFIG,
                   particles, testParticles, mouse, camera>>
    /\ UNCHANGED <<targetVars, trackerVars, buildVars, touchVars>>

SetGroupCount ==
    \E g \in 1 .. Len(testObjectGroups), c \in GroupCounts :
        GroupsChanged([testObjectGroups EXCEPT ![g] = c])

RemoveGroup ==
    \E g \in 1 .. Len(testObjectGroups) :
        GroupsChanged(RemoveAt(testObjectGroups, g))

SwitchImageSet ==
    /\ showcaseTextures' = 0
    /\ showcaseImagesLoaded' = FALSE
    /\ imageLoadPending' = TRUE
    /\ lastEvent' = "other"
    /\ UNCHANGED <<samplerVars, imageVars>>
    /\ UNCHANGED <<state, returnTimer, rebuildTimeout, timers, showcaseBoxShouldShow,
                   CONFIG, particles, testParticles, testObjectGroups, mouse, camera>>
    /\ UNCHANGED <<targetVars, trackerVars, buildVars, touchVars>>

FinalizeImageLoad ==
    \E n \in TextureCounts :
        /\ imageLoadPending
        /\ imageLoadPending' = FALSE
        /\ showcaseTextures' = n
        /\ showcaseImagesLoaded' = IF n > 0 THEN TRUE ELSE showcaseImagesLoaded
        /\ lastEvent' = "other"
        /\ UNCHANGED <<samplerVars, imageVars>>
        /\ UNCHANGED <<state, returnTimer, rebuildTimeout, timers,
                       showcaseBoxShouldShow, CONFIG, particles, testParticles,
                       testObjectGroups, mouse, camera>>
        /\ UNCHANGED <<targetVars, trackerVars, buildVars, touchVars>>

----------------------------------------------------------------------------
(* The program *)

(* The configuration after construction.  Values the scales above cannot   *)
(* carry start at a value their slider reaches: holdDuration 1000 ms       *)
(* (file: 30000), animationSpeed 0.5 (file: 0.12), explosion radii 0.25    *)
(* and 0.4 (file: 30 and 50), explosion offset 0 (file: 0, -3, 0).         *)
DefaultConfig ==
    [reassembleOnClick |-> TRUE,
     holdDuration |-> 2,
     imageDelay |-> 1,
     animationSpeed |-> 50,
     explodedParallaxEnabled |-> TRUE,
     explodedParallaxStrength |-> 0,
     idleFloatAmount |-> 1,
     showTreeParticles |-> TRUE,
     parallaxEnabled |-> TRUE,
     parallaxStrengthX |-> 15,
     parallaxStrengthY |-> 40,
     parallaxPositionStrengthX |-> 0,
     parallaxPositionStrengthY |-> 0,
     explodedParallaxStrengthX |-> 12,
     explodedParallaxStrengthY |-> 12,
     explosionInnerRadius |-> 5,
     explosionOuterRadius |-> 8,
     explosionOffsetX |-> 0,
     explosionOffsetY |-> 0,
     explosionOffsetZ |-> 0,
     explosionCenterMode |-> "tree",
     rewardImage |-> FALSE,             \* v4: a reward image path is configured
     treeHeight |-> 400,
     treeRadius |-> 180,
     viewType |-> "isometric",
     explodedViewType |-> "perspective"]

InitConfigured(objs, config) ==
    /\ state = "IDLE"
    /\ returnTimer = 0
    /\ rebuildTimeout = 0
    /\ timers = <<>>
    /\ showcaseBoxShouldShow = FALSE
    /\ showcaseImagesLoaded = FALSE
    /\ showcaseTextures = 0
    /\ imageLoadPending = FALSE
    /\ CONFIG = config
    /\ testParticles = <<>>
    /\ testObjectGroups = <<>>
    /\ objects = objs
    /\ \E pos \in Samples(ParticleCount(objs), TreePositions),
          tg \in Samples(TargetCount(objs), ShellTargets),
          sn \in Samples(ParticleCount(objs), Sensitivities) :
            /\ particles = CreateParticles(objs, 0, pos, tg, sn,
                                           config.showTreeParticles)
            /\ explosionTargets = tg
    /\ testExplosionTargets = <<>>
    /\ mouse = <<0, 0>>
    /\ camera = "orthographic"
    /\ lastEvent = "other"
    /\ targetRotation = <<0, 0>>
    /\ targetPosition = <<0, 0>>
    /\ deviceOrientation = <<0, 0>>
    /\ baselineOrientation = Null
    /\ useDeviceOrientation = FALSE
    /\ deviceOrientationEnabled = FALSE
    /\ readingSinceEnabled = FALSE
    /\ touchRotationOffset = <<0, 0>>
    /\ touchVelocity = <<0, 0>>
    /\ isTouching = FALSE
    /\ lastTouchPos = Null
    /\ storedMomentum = Null
    /\ touchMoveCount = 0
    /\ sampled = Null
    /\ generated = <<>>
    /\ currentImageSet = 0
    /\ textureSets = <<>>
    /\ imageLoads = <<>>
    /\ rewardImageVisible = FALSE

InitFor(objs) == InitConfigured(objs, DefaultConfig)

Init == InitFor(TreeObjects)

(* The state machine with its timers, the showcase flag, the configuration *)
(* handlers that feed triggerExplosion, and the tree pool.                  *)
Next ==
    \/ \E target \in EventTargets : TriggerExplosion(target)
    \/ HoldTimerFires
    \/ RevealTimerFires
    \/ Tick
    \/ \E phase \in Phases : Animate(phase)
    \/ SetReassembleOnClick
    \/ SetHoldDuration
    \/ SetImageDelay
    \/ RebuildAllParticles
    \/ SwitchImageSet
    \/ FinalizeImageLoad

Spec == Init /\ [][Next]_vars

(* The two pools under the frame update: test object groups, the debounced  *)
(* rebuild, and the settings animate reads.                                 *)
NextPool ==
    \/ \E target \in EventTargets : TriggerExplosion(target)
    \/ HoldTimerFires
    \/ RebuildTimerFires
    \/ Tick
    \/ \E phase \in Phases : Animate(phase)
    \/ SetReassembleOnClick
    \/ SetExplodedParallaxStrength
    \/ MouseMove
    \/ RebuildAllParticles
    \/ AddObjectGroup
    \/ SetGroupCount
    \/ RemoveGroup

SpecPool == Init /\ [][NextPool]_vars

(* The camera under state changes and the two view type settings. *)
NextCamera ==
    \/ \E target \in EventTargets : TriggerExplosion(target)
    \/ HoldTimerFires
    \/ Tick
    \/ \E phase \in Phases : Animate(phase)
    \/ SetReassembleOnClick
    \/ SetViewType
    \/ SetExplodedViewType

SpecCamera == Init /\ [][NextCamera]_vars

(* The animation state against every kind of handler that runs beside it *)
NextState ==
    \/ \E target \in EventTargets : TriggerExplosion(target)
    \/ HoldTimerFires
    \/ RevealTimerFires
    \/ Tick
    \/ \E phase \in Phases : Animate(phase)
    \/ SetReassembleOnClick
    \/ MouseMove
    \/ SetDeviceOrientationEnabled
    \/ \E event \in {LevelEvent} : HandleDeviceOrientation(event)
    \/ RebuildAllParticles
    \/ SwitchImageSet
    \/ FinalizeImageLoad

SpecState == Init /\ [][NextState]_vars

----------------------------------------------------------------------------
(* v4: one test pool sized by a slider *)

TestObjectCounts == {0, 1, 2}

Min(a, b) == IF a < b THEN a ELSE b

SetTestObjectCount ==
    \E count \in TestObjectCounts :
        LET currentCount == Len(testParticles)
            kept == Aged(SubSeq(testParticles, 1, Min(count, currentCount)))
        IN  /\ \E pos \in Samples(count, TreePositions),
                  tg \in Samples(count, ShellTargets),
                  sn \in Samples(count, Sensitivities) :
                    /\ testParticles' =
                           [i \in 1 .. count |->
                               IF i <= currentCount
                               THEN [kept[i] EXCEPT !.explosionTarget = tg[i]]
                               ELSE NewParticle(pos[i], tg[i], sn[i], TRUE)]
                    /\ testExplosionTargets' = tg
            /\ particles' = SetVisible(particles, count = 0 /\ CONFIG.showTreeParticles)
            /\ lastEvent' = "other"
            /\ UNCHANGED <<samplerVars, imageVars>>
            /\ UNCHANGED <<state, returnTimer, rebuildTimeout, timers,
                           showcaseBoxShouldShow, showcaseImagesLoaded,
                           showcaseTextures, imageLoadPending, CONFIG,
                           testObjectGroups, mouse, camera>>
            /\ UNCHANGED <<targetVars, trackerVars, touchVars, objects, explosionTargets>>

SetTestObjectShape ==
    LET armed == DebouncedRebuildAll(timers)
    IN  /\ Len(armed) <= MaxTimers
        /\ timers' = armed
        /\ rebuildTimeout' = FreeHandle(
               IF rebuildTimeout # 0 THEN ClearTimeout(timers, rebuildTimeout) ELSE timers,
               {returnTimer})
        /\ lastEvent' = "other"
        /\ UNCHANGED <<samplerVars, imageVars>>
        /\ UNCHANGED <<state, returnTimer, showcaseBoxShouldShow,
                       showcaseImagesLoaded, showcaseTextures, imageLoadPending,
                       CONFIG, particles, testParticles, testObjectGroups, mouse,
                       camera>>
        /\ UNCHANGED <<targetVars, trackerVars, buildVars, touchVars>>

RebuildTimerFiresV4 ==
    /\ IsDue(timers, "rebuild")
    /\ timers' = Tail(timers)
    /\ LET count == Len(testParticles)
       IN  \E pos \in Samples(count, TreePositions),
              tg \in Samples(count, ShellTargets),
              sn \in Samples(count, Sensitivities) :
                /\ testParticles' =
                       ClearPool(Aged(testParticles))
                           \o [i \in 1 .. count |-> NewParticle(pos[i], tg[i], sn[i], TRUE)]
                /\ testExplosionTargets' = tg
    /\ lastEvent' = "other"
    /\ UNCHANGED <<samplerVars, imageVars>>
    /\ UNCHANGED <<state, returnTimer, rebuildTimeout, showcaseBoxShouldShow,
                   showcaseImagesLoaded, showcaseTextures, imageLoadPending,
                   CONFIG, particles, testObjectGroups, mouse, camera>>
    /\ UNCHANGED <<targetVars, trackerVars, touchVars, objects, explosionTargets>>

NextV4 ==
    \/ SetTestObjectCount
    \/ SetTestObjectShape
    \/ RebuildTimerFiresV4
    \/ Tick
    \/ SetExplosionInnerRadius

SpecV4 == Init /\ [][NextV4]_vars

(* Pool builds from any accepted object definitions, and rebuilds of both *)
(* pools.                                                                  *)
ValidObjectDef(count) == count >= 0

InitBuild == \E objs \in ObjectLists :
    /\ \A d \in 1 .. Len(objs) : ValidObjectDef(objs[d])
    /\ InitFor(objs)

NextBuild ==
    \/ \E target \in EventTargets : TriggerExplosion(target)
    \/ HoldTimerFires
    \/ RebuildTimerFires
    \/ Tick
    \/ SetExplosionInnerRadius
    \/ RebuildAllParticles
    \/ AddObjectGroup
    \/ SetGroupCount
    \/ RemoveGroup

SpecBuild == InitBuild /\ [][NextBuild]_vars

(* The explosion shell setting beside geometry rebuilds, triggers and     *)
(* frames.                                                                 *)
NextShell ==
    \/ \E target \in EventTargets : TriggerExplosion(target)
    \/ HoldTimerFires
    \/ Tick
    \/ \E phase \in Phases : Animate(phase)
    \/ SetExplosionInnerRadius
    \/ RebuildAllParticles

SpecShell == Init /\ [][NextShell]_vars

(* Tree visibility under the show-tree toggle, group edits and rebuilds.  *)
NextVisible ==
    \/ \E phase \in Phases : Animate(phase)
    \/ RebuildTimerFires
    \/ Tick
    \/ SetShowTreeParticles
    \/ RebuildAllParticles
    \/ AddObjectGroup
    \/ SetGroupCount
    \/ RemoveGroup

SpecVisible == Init /\ [][NextVisible]_vars

(* The input tracker with the device orientation setting.                 *)
NextTracker ==
    \/ \E phase \in {0} : Animate(phase)
    \/ MouseMove
    \/ SetDeviceOrientationEnabled
    \/ \E event \in OrientationEvents : HandleDeviceOrientation(event)

SpecTracker == Init /\ [][NextTracker]_vars

(* The input tracker without the setting.                                  *)
NextTrackerLegacy ==
    \/ \E phase \in {0} : Animate(phase)
    \/ MouseMove
    \/ \E event \in OrientationEvents : HandleDeviceOrientationLegacy(event)

SpecTrackerLegacy == Init /\ [][NextTrackerLegacy]_vars

(* The position target under pointer input, the exploded parallax switch  *)
(* and the position strength.                                              *)
NextPosition ==
    \/ \E target \in {"canvas"} : TriggerExplosion(target)
    \/ \E phase \in {0} : Animate(phase)
    \/ MouseMove
    \/ SetExplodedParallaxEnabled
    \/ SetParallaxPositionStrengthX

SpecPosition == Init /\ [][NextPosition]_vars

(* The group parallax targets under pointer and touch input, the parallax *)
(* settings and the state machine.                                         *)
NextParallax ==
    \/ \E target \in {"canvas"} : TriggerExplosion(target)
    \/ \E phase \in {0} : Animate(phase)
    \/ MouseMove
    \/ SetParallaxEnabled
    \/ SetExplodedParallaxEnabled
    \/ \E touch \in TouchPoints : HandleTouchStart(touch)
    \/ \E touch \in TouchPoints : HandleTouchMove(touch)
    \/ HandleTouchEnd

SpecParallax == Init /\ [][NextParallax]_vars

----------------------------------------------------------------------------
(* v4: triggerExplosion with the reward image *)

ArmRewardTimer(ts) ==
    IF CONFIG.rewardImage
    THEN SetTimeout(ts, "reward", CONFIG.imageDelay, {rebuildTimeout})
    ELSE ts

HideRewardImage == IF CONFIG.rewardImage THEN FALSE ELSE rewardImageVisible

ForceReturnV4(target) ==
    /\ timers' = MarkDead(CancelReturnTimer(timers))
    /\ returnTimer' = 0
    /\ rewardImageVisible' = HideRewardImage
    /\ state' = "RETURNING"
    /\ camera' = UpdateCamera("RETURNING")
    /\ lastEvent' = "forceReturn"
    /\ UNCHANGED <<rebuildTimeout, showcaseBoxShouldShow, showcaseImagesLoaded,
                   showcaseTextures, imageLoadPending, CONFIG, particles,
                   testParticles, testObjectGroups, mouse>>
    /\ UNCHANGED <<inputVars, samplerVars, currentImageSet, textureSets, imageLoads>>

ExplodeV4(target) ==
    LET rewarded == ArmRewardTimer(MarkOld(CancelReturnTimer(timers)))
        armed == ArmHoldTimer(rewarded)
    IN  /\ Len(armed) <= MaxTimers
        /\ timers' = armed
        /\ returnTimer' = FreeHandle(rewarded, {rebuildTimeout})
        /\ state' = "EXPLODING"
        /\ camera' = UpdateCamera("EXPLODING")
        /\ particles' = ResetShifts(particles)
        /\ lastEvent' = "explode"
        /\ UNCHANGED <<rebuildTimeout, showcaseBoxShouldShow, showcaseImagesLoaded,
                       showcaseTextures, imageLoadPending, CONFIG, testParticles,
                       testObjectGroups, mouse>>
        /\ UNCHANGED <<inputVars, samplerVars, imageVars>>

TriggerExplosionV4(target) ==
    IF TargetInGui(target) THEN IgnoreTrigger(target)
    ELSE IF ForcedReturnApplies THEN ForceReturnV4(target)
    ELSE IF ~CanExplode THEN IgnoreTrigger(target)
    ELSE ExplodeV4(target)

RewardTimerFires ==
    /\ IsDue(timers, "reward")
    /\ timers' = Tail(timers)
    /\ rewardImageVisible' = TRUE
    /\ lastEvent' = "reveal"
    /\ UNCHANGED <<state, returnTimer, rebuildTimeout, showcaseBoxShouldShow,
                   showcaseImagesLoaded, showcaseTextures, imageLoadPending, CONFIG,
                   particles, testParticles, testObjectGroups, mouse, camera>>
    /\ UNCHANGED <<inputVars, samplerVars, currentImageSet, textureSets, imageLoads>>

HoldTimerFiresV4 ==
    /\ IsDue(timers, "hold")
    /\ timers' = Tail(timers)
    /\ rewardImageVisible' = HideRewardImage
    /\ state' = "RETURNING"
    /\ camera' = UpdateCamera("RETURNING")
    /\ returnTimer' = 0
    /\ lastEvent' = "hold"
    /\ UNCHANGED <<rebuildTimeout, showcaseBoxShouldShow, showcaseImagesLoaded,
                   showcaseTextures, imageLoadPending, CONFIG, particles,
                   testParticles, testObjectGroups, mouse>>
    /\ UNCHANGED <<inputVars, samplerVars, currentImageSet, textureSets, imageLoads>>

(* rewardImage comes from the configuration file: a path, or "" for none.  *)
InitReward ==
    \E configured \in BOOLEAN :
        InitConfigured(TreeObjects, [DefaultConfig EXCEPT !.rewardImage = configured])

NextReward ==
    \/ \E target \in EventTargets : TriggerExplosionV4(target)
    \/ HoldTimerFiresV4
    \/ RewardTimerFires
    \/ Tick
    \/ \E phase \in Phases : Animate(phase)
    \/ SetReassembleOnClick
    \/ SetHoldDuration
    \/ SetImageDelay

SpecReward == InitReward /\ [][NextReward]_vars

----------------------------------------------------------------------------
(* Sampler: sampleTreePosition and generateExplosionTargets                *)
(*                                                                         *)
(* A double is a tuple: <<v>> for the finite value v, <<>> for NaN,        *)
(* <<s, 0>> for the infinity of sign s.  Tree dimensions and sampled       *)
(* resting positions count tenths of a world unit; a Math.random() draw    *)
(* counts hundredths; the fractions of the sampler count tenths.           *)

Uniforms == {0, 25, 50, 75}             \* Math.random(), hundredths
TreeHeights == {0, 200, 400}            \* CONFIG.treeHeight as the file can give it
TreeRadii == {0, 100, 200}

NaN == <<>>

Num(v) == <<v>>

Infinity(sign) == <<sign, 0>>

IsFinite(a) == Len(a) = 1

Sign(v) == IF v < 0 THEN -1 ELSE 1

(* a / b, the quotient counted in 1/scale *)
FloatDiv(a, b, scale) ==
    IF a = NaN \/ b = NaN THEN NaN
    ELSE IF ~IsFinite(a) THEN (IF ~IsFinite(b) THEN NaN
                               ELSE Infinity(a[1] * Sign(b[1])))
    ELSE IF ~IsFinite(b) THEN Num(0)
    ELSE IF b[1] = 0 THEN (IF a[1] = 0 THEN NaN ELSE Infinity(Sign(a[1])))
    ELSE Num(TruncDiv(a[1] * scale, b[1]))

(* a * b, with b counted in 1/scale *)
FloatMul(a, b, scale) ==
    IF a = NaN \/ b = NaN THEN NaN
    ELSE IF ~IsFinite(a) \/ ~IsFinite(b)
         THEN (IF a = Num(0) \/ b = Num(0) THEN NaN
               ELSE Infinity(Sign(a[1]) * Sign(b[1])))
    ELSE Num(TruncDiv(a[1] * b[1], scale))

FloatSub(a, b) ==
    IF a = NaN \/ b = NaN THEN NaN
    ELSE IF ~IsFinite(a) THEN (IF ~IsFinite(b) /\ a[1] = b[1] THEN NaN ELSE a)
    ELSE IF ~IsFinite(b) THEN Infinity(-b[1])
    ELSE Num(a[1] - b[1])

(* Math.sqrt of a draw, in tenths *)
Sqrt10(u) == CHOOSE r \in 0 .. 10 : r * r <= u /\ u < (r + 1) * (r + 1)

(* theta = Math.random() * 2 pi, in quarter turns *)
QuarterTurns(draw) == draw \div 25

Cos100(quarters) == Sin100(quarters + 1)

FilledFactor(v) == TruncDiv(v * 10, 100)

(* 0.6 + Math.random() * 0.4, in tenths *)
HollowFactor(v) == 6 + TruncDiv(v * 4, 100)

SampleTreePosition(u, t, v) ==
    LET treeHeight == Num(CONFIG.treeHeight)
        treeRadius == Num(CONFIG.treeRadius)
        heightFraction == Num(Sqrt10(u))
        height == FloatMul(heightFraction, treeHeight, 10)
        radiusAtHeight == FloatMul(FloatDiv(height, treeHeight, 10), treeRadius, 10)
        theta == QuarterTurns(t)
        r == FloatMul(radiusAtHeight, Num(HollowFactor(v)), 10)
        x == FloatMul(r, Num(Cos100(theta)), 100)
        z == FloatMul(r, Num(Sin100(theta)), 100)
        y == FloatSub(FloatDiv(treeHeight, Num(2), 1), height)
    IN  <<x, y, z>>

(* createParticles: const pos = sampleTreePosition() *)
CallSampleTreePosition ==
    /\ \E u \in Uniforms, t \in Uniforms, v \in Uniforms :
           sampled' = SampleTreePosition(u, t, v)
    /\ lastEvent' = "sample"
    /\ UNCHANGED <<coreVars, inputVars, generated, imageVars>>

(* The sampler under every tree height and radius the configuration file  *)
(* can carry.                                                              *)
InitSampler ==
    \E h \in TreeHeights, r \in TreeRadii :
        InitConfigured(TreeObjects,
                       [DefaultConfig EXCEPT !.treeHeight = h, !.treeRadius = r])

NextSampler == CallSampleTreePosition

SpecSampler == InitSampler /\ [][NextSampler]_vars

(* generateExplosionTargets.  Radii, centres and targets count 0.05 world   *)
(* units, like every length of the pools.                                  *)
OuterRadii == {3, 5, 8}
Offsets == {0, -3}
CenterModes == {"camera", "tree"}
CameraPosition == <<0, 5, 6>>           \* camera.position
TargetCounts == {0, 1, 2}
ThetaDraws == {0, 25}
PolarDraws == {0, 80}
RadiusDraws == {0, 75}
Draws == [theta : ThetaDraws, polar : PolarDraws, radius : RadiusDraws]

(* phi = Math.acos(2 * Math.random() - 1): cos(phi) and sin(phi), hundredths *)
CosPhi(v) == 2 * v - 100

SinPhi(v) ==
    LET s2 == 10000 - CosPhi(v) * CosPhi(v)
    IN  CHOOSE s \in 0 .. 100 : s * s <= s2 /\ s2 < (s + 1) * (s + 1)

(* innerR + Math.random() * (outerR - innerR) *)
ShellRadius(w) ==
    CONFIG.explosionInnerRadius
        + Scale(w, CONFIG.explosionOuterRadius - CONFIG.explosionInnerRadius, 100)

(* The centre the callers pass *)
ExplosionCenter ==
    IF CONFIG.explosionCenterMode = "camera" THEN CameraPosition ELSE ZeroVector

OffsetCenter(center) ==
    <<center[1] + CONFIG.explosionOffsetX,
      center[2] + CONFIG.explosionOffsetY,
      center[3] + CONFIG.explosionOffsetZ>>

GenerateExplosionTargets(count, center, draws) ==
    LET explosionCenter == OffsetCenter(center)
    IN  [i \in 1 .. count |->
            LET theta == QuarterTurns(draws[i].theta)
                r == ShellRadius(draws[i].radius)
            IN  <<explosionCenter[1]
                      + TruncDiv(r * SinPhi(draws[i].polar) * Cos100(theta), 10000),
                  explosionCenter[2]
                      + TruncDiv(r * SinPhi(draws[i].polar) * Sin100(theta), 10000),
                  explosionCenter[3] + TruncDiv(r * CosPhi(draws[i].polar), 100)>>]

(* const explosionTargets = generateExplosionTargets(count, explosionCenter) *)
CallGenerateExplosionTargets ==
    /\ \E count \in TargetCounts :
         \E draws \in Samples(count, Draws) :
           generated' = GenerateExplosionTargets(count, ExplosionCenter, draws)
    /\ lastEvent' = "generate"
    /\ UNCHANGED <<coreVars, inputVars, sampled, imageVars>>

SetExplosionOuterRadius ==
    \E val \in OuterRadii : Configure("explosionOuterRadius", val)

SetExplosionCenterMode ==
    \E val \in CenterModes : Configure("explosionCenterMode", val)

SetExplosionOffsetY == \E val \in Offsets : Configure("explosionOffsetY", val)

NextTargets ==
    \/ CallGenerateExplosionTargets
    \/ SetExplosionOuterRadius
    \/ SetExplosionCenterMode
    \/ SetExplosionOffsetY

SpecTargets == Init /\ [][NextTargets]_vars

(* The individual parallax shift through an explosion and the return,     *)
(* started with an individual strength of 3.0 (slider 0..20, step 0.5).   *)
StartParallaxStrengths == {60}

InitShift ==
    \E strength \in StartParallaxStrengths :
        InitConfigured(TreeObjects,
                       [DefaultConfig EXCEPT !.explodedParallaxStrength = strength])

NextShift ==
    \/ \E target \in {"canvas"} : TriggerExplosion(target)
    \/ HoldTimerFires
    \/ Tick
    \/ \E phase \in {0} : Animate(phase)
    \/ MouseMove
    \/ SetExplodedParallaxEnabled

SpecShift == InitShift /\ [][NextShift]_vars

(* The return to IDLE.  animate asks for its next frame before anything   *)
(* else, and the host runs a timer callback once its delay has passed, so  *)
(* frames, the clock and the hold callback are not postponed forever.      *)
NextLive ==
    \/ \E target \in {"canvas"} : TriggerExplosion(target)
    \/ HoldTimerFires
    \/ Tick
    \/ \E phase \in Phases : Animate(phase)
    \/ SetReassembleOnClick
    \/ SetAnimationSpeed

SpecLive ==
    /\ Init
    /\ [][NextLive]_vars
    /\ WF_vars(\E phase \in Phases : Animate(phase))
    /\ WF_vars(Tick)
    /\ WF_vars(HoldTimerFires)

(* The touch drag on its own: the tracker's frame function, drags of a    *)
(* 0.05 along the diagonal of the screen, and the release.  A frame taken *)
(* while the finger is down, and the start of a new drag, stay within     *)
(* MaxTouchOffset; the frames after a release are never held back.         *)
DragPoints == {<<0, 0>>, <<5, 5>>}

UpdateParallaxTargets ==
    /\ \E fingerIsStill \in (IF isTouching THEN BOOLEAN ELSE {FALSE}) :
           touchVelocity' = NextTouchVelocity(fingerIsStill)
    /\ touchRotationOffset' = NextTouchOffset
    /\ isTouching => /\ Abs(NextTouchOffset[1]) <= MaxTouchOffset
                     /\ Abs(NextTouchOffset[2]) <= MaxTouchOffset
    /\ targetRotation' = ParallaxTargetRotation
    /\ targetPosition' = ParallaxTargetPosition
    /\ lastEvent' = "frame"
    /\ UNCHANGED <<samplerVars, imageVars>>
    /\ UNCHANGED <<state, returnTimer, rebuildTimeout, timers, showcaseBoxShouldShow,
                   showcaseImagesLoaded, showcaseTextures, imageLoadPending, CONFIG,
                   particles, testParticles, testObjectGroups, mouse, camera>>
    /\ UNCHANGED <<trackerVars, buildVars, isTouching, lastTouchPos,
                   storedMomentum, touchMoveCount>>

NextTouch ==
    \/ UpdateParallaxTargets
    \/ \E touch \in DragPoints :
           /\ Abs(touchRotationOffset[1]) <= MaxTouchOffset
           /\ HandleTouchStart(touch)
    \/ \E touch \in DragPoints : HandleTouchMove(touch)
    \/ HandleTouchEnd

(* The frame loop asks for its next frame before anything else, so frames *)
(* are not postponed forever.                                              *)
SpecTouch == Init /\ [][NextTouch]_vars /\ WF_vars(UpdateParallaxTargets)

(* Pointer-down events on their way to triggerExplosion: the settings     *)
(* modal has a mousedown listener that stops the propagation, window has  *)
(* triggerExplosion as its mousedown and its touchstart listener.  Every  *)
(* pointer-down event of this specification lands in one of the panels.   *)
EventTypes == {"mousedown", "touchstart"}

PanelTargets == {"gui", "settings"}

StoppedAtSettingsModal(type, target) == target = "settings" /\ type = "mousedown"

PointerDown(type, target) ==
    IF StoppedAtSettingsModal(type, target)
    THEN /\ lastEvent' = "other"
         /\ UNCHANGED <<coreVars, inputVars, samplerVars, imageVars>>
    ELSE TriggerExplosion(target)

NextPanel ==
    \/ \E type \in EventTypes, target \in PanelTargets : PointerDown(type, target)
    \/ HoldTimerFires
    \/ Tick
    \/ \E phase \in Phases : Animate(phase)
    \/ MouseMove
    \/ SetReassembleOnClick

SpecPanel == InitShift /\ [][NextPanel]_vars

(* The image loader: switchImageSet, the texture callbacks of              *)
(* loadImagesFromList and finalizeImageLoad, which runs as the             *)
(* continuation of Promise.all in the step of the list's last callback.    *)
(* A texture is the 1-tuple of the id of the set it was loaded for, an     *)
(* empty slot of the array is Null.                                        *)
ImageSets == {1, 2}

ImageLists == <<2, 1>>      \* number of files in the images.json of each set

RECURSIVE Holes(_)
Holes(n) == IF n <= 0 THEN <<>> ELSE <<Null>> \o Holes(n - 1)

AssignAt(textures, index, texture) ==
    IF index <= Len(textures)
    THEN [textures EXCEPT ![index] = texture]
    ELSE textures \o Holes(index - Len(textures) - 1) \o <<texture>>

FilterLoaded(textures) == SelectSeq(textures, LAMBDA t : t # Null)

SwitchImageSetTo(setId) ==
    /\ Len(imageLoads) < MaxLoads
    /\ currentImageSet' = setId
    /\ textureSets' = <<>>
    /\ showcaseTextures' = 0
    /\ showcaseImagesLoaded' = FALSE
    /\ imageLoads' = Append(imageLoads,
                            [set |-> setId, pending |-> 1 .. ImageLists[setId]])
    /\ imageLoadPending' = TRUE
    /\ rewardImageVisible' = rewardImageVisible
    /\ lastEvent' = "other"
    /\ UNCHANGED <<state, returnTimer, rebuildTimeout, timers, showcaseBoxShouldShow,
                   CONFIG, particles, testParticles, testObjectGroups, mouse, camera>>
    /\ UNCHANGED <<inputVars, samplerVars>>

TextureCallback(load, index, loaded) ==
    LET list == imageLoads[load]
        written == IF loaded THEN AssignAt(textureSets, index, <<list.set>>)
                             ELSE textureSets
        last == list.pending = {index}
        after == IF last THEN FilterLoaded(written) ELSE written
    IN  /\ index \in list.pending
        /\ textureSets' = after
        /\ showcaseTextures' = Len(FilterLoaded(after))
        /\ showcaseImagesLoaded' = IF last /\ Len(after) > 0 THEN TRUE
                                                              ELSE showcaseImagesLoaded
        /\ imageLoads' = IF last THEN RemoveAt(imageLoads, load)
                          ELSE [imageLoads EXCEPT ![load].pending = @ \ {index}]
        /\ imageLoadPending' = (Len(imageLoads') > 0)
        /\ lastEvent' = "other"
        /\ UNCHANGED <<currentImageSet, rewardImageVisible>>
        /\ UNCHANGED <<state, returnTimer, rebuildTimeout, timers,
                       showcaseBoxShouldShow, CONFIG, particles, testParticles,
                       testObjectGroups, mouse, camera>>
        /\ UNCHANGED <<inputVars, samplerVars>>

NextImages ==
    \/ \E setId \in ImageSets : SwitchImageSetTo(setId)
    \/ \E load \in 1 .. Len(imageLoads), loaded \in BOOLEAN :
           \E index \in imageLoads[load].pending :
               TextureCallback(load, index, loaded)
    \/ \E target \in {"canvas"} : TriggerExplosion(target)
    \/ HoldTimerFires
    \/ Tick

SpecImages == Init /\ [][NextImages]_vars

----------------------------------------------------------------------------
(* Properties *)

(* C1: a triggerExplosion call whose target is outside the GUI, made while *)
(* the state is IDLE or RETURNING, ends with state EXPLODING and with a    *)
(* hold timer pending, held in returnTimer, due in the holdDuration        *)
(* configured at the moment of the call.                                   *)
C1_ExplodeArmsHold ==
    [][(/\ state \in {"IDLE", "RETURNING"}
        /\ lastEvent' \in {"explode", "forceReturn", "ignored"})
       => (/\ state' = "EXPLODING"
           /\ returnTimer' # 0
           /\ \E i \in 1 .. Len(timers') :
                /\ timers'[i].id = returnTimer'
                /\ timers'[i].kind = "hold"
                /\ timers'[i].remaining = CONFIG.holdDuration)]_vars

C1_Witness ==
    /\ lastEvent = "explode"
    /\ state = "EXPLODING"
    /\ CONFIG.holdDuration = 4
    /\ \E i \in 1 .. Len(timers) :
         /\ timers[i].id = returnTimer
         /\ timers[i].kind = "hold"
         /\ timers[i].remaining = 4

(* C2: a triggerExplosion call made while the state is EXPLODING and       *)
(* reassembleOnClick is enabled ends with state RETURNING and no hold      *)
(* timer pending; a hold timer whose explosion was ended by a forced       *)
(* return is never pending afterwards, so it never fires.                  *)
C2_ForcedReturnCancelsHold ==
    [][/\ (/\ state = "EXPLODING"
           /\ CONFIG.reassembleOnClick
           /\ lastEvent' \in {"explode", "forceReturn", "ignored"})
          => (/\ state' = "RETURNING"
              /\ \A i \in 1 .. Len(timers') : timers'[i].kind # "hold")
       /\ \A i \in 1 .. Len(timers') :
            ~(timers'[i].kind = "hold" /\ timers'[i].dead)]_vars

C2_Witness ==
    /\ lastEvent = "forceReturn"
    /\ state = "RETURNING"
    /\ returnTimer = 0
    /\ \A i \in 1 .. Len(timers) : timers[i].kind # "hold"
    /\ \E i \in 1 .. Len(timers) : timers[i].kind = "reveal"

(* C3: a triggerExplosion call made while the state is EXPLODING and       *)
(* reassembleOnClick is disabled changes nothing: the state, the pending   *)
(* timers with their deadlines, returnTimer and every particle of both     *)
(* pools (its parallax shift included) are as before the call.             *)
C3_IgnoredTrigger ==
    [][(/\ state = "EXPLODING"
        /\ ~CONFIG.reassembleOnClick
        /\ lastEvent' \in {"explode", "forceReturn", "ignored"})
       => UNCHANGED <<state, returnTimer, timers, particles, testParticles>>]_vars

C3_Witness ==
    /\ lastEvent = "ignored"
    /\ state = "EXPLODING"
    /\ ~CONFIG.reassembleOnClick
    /\ \E i \in 1 .. Len(timers) : timers[i].kind = "hold" /\ timers[i].id = returnTimer
    /\ \E i \in 1 .. Len(particles) : particles[i].individualParallaxShift # ZeroVector
    /\ \E i \in 1 .. Len(testParticles) :
         testParticles[i].individualParallaxShift # ZeroVector

(* C4: at most one hold timer is pending at any moment; the pending hold   *)
(* timer is the one armed by the latest explosion, that explosion is still *)
(* in its EXPLODING state, and returnTimer holds its handle.               *)
C4_OneHoldTimer ==
    LET holds == {i \in 1 .. Len(timers) : timers[i].kind = "hold"}
    IN  /\ Cardinality(holds) <= 1
        /\ \A i \in holds :
             /\ timers[i].cur
             /\ timers[i].id = returnTimer
             /\ state = "EXPLODING"

C4_Witness ==
    /\ lastEvent = "explode"
    /\ Cardinality({i \in 1 .. Len(timers) : timers[i].kind = "hold"}) = 1
    /\ \E i \in 1 .. Len(timers) : timers[i].kind = "reveal" /\ ~timers[i].cur

(* C5: a reveal timer armed by an earlier explosion does not take effect   *)
(* after a forced return or a new explosion, so the showcase is not        *)
(* visible earlier than imageDelay after the latest transition into        *)
(* EXPLODING: showcaseBoxShouldShow is never true while the reveal timer   *)
(* armed by the latest explosion still has time left to run.               *)
C5_RevealNeverStale ==
    showcaseBoxShouldShow
    => \A i \in 1 .. Len(timers) :
         ~(timers[i].kind = "reveal" /\ timers[i].cur /\ timers[i].remaining > 0)

(* C6: a frame that starts in RETURNING ends in IDLE if and only if,       *)
(* after the frame's interpolation, every particle of the tree pool and of *)
(* the test pool is within 0.1 world units (2 units) of its originalPos.   *)
C6_ReturnToIdle ==
    [][(state = "RETURNING" /\ lastEvent' = "frame")
       => (state' = "IDLE"
           <=> (/\ \A i \in 1 .. Len(particles') :
                     DistanceSq(particles'[i].position,
                                particles'[i].originalPos) <= 2 * 2
                /\ \A i \in 1 .. Len(testParticles') :
                     DistanceSq(testParticles'[i].position,
                                testParticles'[i].originalPos) <= 2 * 2))]_vars

C6_Witness ==
    /\ lastEvent = "frame"
    /\ state = "IDLE"
    /\ Len(testParticles) > 0
    /\ \E i \in 1 .. Len(particles) :
         DistanceSq(particles[i].position, particles[i].originalPos) = 2 * 2

(* C7: every change of the animation state is one of IDLE -> EXPLODING,    *)
(* EXPLODING -> RETURNING, RETURNING -> IDLE, RETURNING -> EXPLODING.      *)
C7_Transitions ==
    [][state' # state
       => <<state, state'>> \in {<<"IDLE", "EXPLODING">>,
                                 <<"EXPLODING", "RETURNING">>,
                                 <<"RETURNING", "IDLE">>,
                                 <<"RETURNING", "EXPLODING">>}]_vars

C7_Witness ==
    /\ lastEvent = "explode"
    /\ state = "EXPLODING"
    /\ \E i \in 1 .. Len(particles) :
         DistanceSq(particles[i].position, particles[i].originalPos) > 4

(* C8: the expiry of the hold timer ends with state RETURNING, with        *)
(* showcaseBoxShouldShow false, with no hold timer pending and with        *)
(* returnTimer null.                                                       *)
C8_HoldExpiry ==
    lastEvent = "hold"
    => (/\ state = "RETURNING"
        /\ ~showcaseBoxShouldShow
        /\ returnTimer = 0
        /\ \A i \in 1 .. Len(timers) : timers[i].kind # "hold")

C8_Witness ==
    /\ lastEvent = "hold"
    /\ state = "RETURNING"
    /\ ~showcaseBoxShouldShow
    /\ returnTimer = 0
    /\ CONFIG.reassembleOnClick = FALSE

(* C9: immediately after a triggerExplosion call that moves the state     *)
(* from IDLE or RETURNING to EXPLODING, the individualParallaxShift of     *)
(* every tree particle and of every test particle is zero.                 *)
C9_ShiftsReset ==
    lastEvent = "explode"
    => (/\ \A i \in 1 .. Len(particles) :
             particles[i].individualParallaxShift = ZeroVector
        /\ \A i \in 1 .. Len(testParticles) :
             testParticles[i].individualParallaxShift = ZeroVector)

(* C10: whenever showcaseBoxShouldShow is true the state is EXPLODING.     *)
C10_ShownOnlyExploding == showcaseBoxShouldShow => state = "EXPLODING"

C10_Witness ==
    /\ showcaseBoxShouldShow
    /\ state = "EXPLODING"
    /\ lastEvent = "reveal"

(* C11: the active camera is the one selected by the view type configured  *)
(* for the current state: explodedViewType while EXPLODING, viewType while *)
(* IDLE or RETURNING; isometric selects the orthographic camera.           *)
C11_CameraFollowsViewType ==
    LET viewType == IF state = "EXPLODING" THEN CONFIG.explodedViewType
                                           ELSE CONFIG.viewType
    IN  camera = IF viewType = "isometric" THEN "orthographic" ELSE "perspective"

C11_Witness ==
    /\ state = "RETURNING"
    /\ CONFIG.viewType = "perspective"
    /\ CONFIG.explodedViewType = "isometric"
    /\ camera = "perspective"
    /\ lastEvent = "hold"

(* C12: the animation state starts as IDLE and is written only by the      *)
(* trigger (starting the explosion, forcing the return, and the hold timer *)
(* it arms) and by the convergence check of a frame during RETURNING; pool *)
(* rebuilds, configuration changes, pointer and orientation input and      *)
(* showcase loading leave it alone.                                        *)
C12_StateWriters ==
    /\ state = "IDLE"
    /\ [][state' # state =>
            \/ lastEvent' \in {"explode", "forceReturn", "hold"}
            \/ lastEvent' = "frame" /\ state = "RETURNING" /\ state' = "IDLE"]_vars

C12_Witness ==
    /\ state = "RETURNING"
    /\ lastEvent = "other"
    /\ useDeviceOrientation
    /\ showcaseImagesLoaded
    /\ mouse # <<0, 0>>

Aligned(pool, targets) ==
    /\ Len(pool) = Len(targets)
    /\ \A k \in 1 .. Len(pool) : pool[k].explosionTarget = targets[k]

WholeCounts == \A d \in 1 .. Len(objects) : objects[d] % CountScale = 0

(* With whole counts the k-th particle holds the k-th target of its build. *)
IndexAlignedForWholeCounts ==
    WholeCounts => /\ Aligned(particles, explosionTargets)
                   /\ Aligned(testParticles, testExplosionTargets)

(* C13: after every build or rebuild of a pool, whatever accepted object   *)
(* definitions it was built from, the k-th particle created holds the k-th *)
(* target generated, and the pool has as many particles as targets were    *)
(* generated: no target is left over, none is used twice, and no particle  *)
(* is without one.                                                         *)
C13_IndexAligned ==
    /\ Aligned(particles, explosionTargets)
    /\ Aligned(testParticles, testExplosionTargets)

AllFresh(pool) == \A i \in 1 .. Len(pool) : pool[i].fresh

PoolChanged(old, new) ==
    \/ Len(old) # Len(new)
    \/ \E i \in 1 .. Len(old) : new[i].explosionTarget # old[i].explosionTarget

(* C15: a pool is only replaced as a whole: a step that changes how many   *)
(* particles a pool has, or the explosion target of any of them, leaves    *)
(* the pool with newly created particles only.                             *)
C15_WholesaleOnly ==
    [][/\ PoolChanged(particles, particles') => AllFresh(particles')
       /\ PoolChanged(testParticles, testParticles') => AllFresh(testParticles')]_vars

InCurrentShell(pool) ==
    \A i \in 1 .. Len(pool) : pool[i].explosionTarget \in ShellTargets

(* C16: a change of the explosion distribution settings rebuilds the pools *)
(* as a change of the tree dimensions does, so that whenever a frame can   *)
(* start every particle's explosion target lies in the shell the current   *)
(* settings describe.                                                      *)
C16_TargetsInCurrentShell ==
    InCurrentShell(particles) /\ InCurrentShell(testParticles)

(* C17: whenever a frame can be rendered, a tree particle is visible only  *)
(* if the tree display is enabled and the test pool holds no particle,     *)
(* however the show-tree toggle, group count edits, group add and remove   *)
(* and the debounced rebuild are ordered.                                  *)
C17_TreeHiddenBehindTestPool ==
    \A i \in 1 .. Len(particles) :
        particles[i].visible => CONFIG.showTreeParticles /\ Len(testParticles) = 0

(* C18: a frame sets all four group parallax targets to zero when parallax *)
(* is disabled for the state the frame finds; otherwise the rotation       *)
(* targets are the input, plus the rotation offset accumulated from touch  *)
(* drags, times the strengths of that state's profile: the vertical input  *)
(* with strength X for rotation.x, the horizontal input with strength Y    *)
(* for rotation.y.                                                         *)
C18_GroupTargets ==
    [][lastEvent' = "frame" =>
        LET exploding == state = "EXPLODING"
            enabled == IF exploding THEN CONFIG.explodedParallaxEnabled
                                    ELSE CONFIG.parallaxEnabled
            strengthX == IF exploding THEN CONFIG.explodedParallaxStrengthX
                                      ELSE CONFIG.parallaxStrengthX
            strengthY == IF exploding THEN CONFIG.explodedParallaxStrengthY
                                      ELSE CONFIG.parallaxStrengthY
            input == IF useDeviceOrientation THEN deviceOrientation ELSE mouse
        IN  IF ~enabled
            THEN targetRotation' = <<0, 0>> /\ targetPosition' = <<0, 0>>
            ELSE /\ targetRotation'[1] =
                        (input[2] * 100 + touchRotationOffset'[2]) * strengthX
                 /\ targetRotation'[2] =
                        (input[1] * 100 + touchRotationOffset'[1]) * strengthY]_vars

C18_Witness ==
    /\ lastEvent = "frame"
    /\ state = "EXPLODING"
    /\ CONFIG.explodedParallaxEnabled
    /\ mouse # <<0, 0>>
    /\ touchRotationOffset # <<0, 0>>
    /\ targetRotation # <<0, 0>>

(* C18 as stated: with parallax enabled for the state the frame finds, the *)
(* rotation targets are the input times the strengths, and nothing else.   *)
C18_InputOnly ==
    [][lastEvent' = "frame" =>
        LET exploding == state = "EXPLODING"
            enabled == IF exploding THEN CONFIG.explodedParallaxEnabled
                                    ELSE CONFIG.parallaxEnabled
            strengthX == IF exploding THEN CONFIG.explodedParallaxStrengthX
                                      ELSE CONFIG.parallaxStrengthX
            strengthY == IF exploding THEN CONFIG.explodedParallaxStrengthY
                                      ELSE CONFIG.parallaxStrengthY
            input == IF useDeviceOrientation THEN deviceOrientation ELSE mouse
        IN  IF ~enabled
            THEN targetRotation' = <<0, 0>> /\ targetPosition' = <<0, 0>>
            ELSE /\ targetRotation'[1] = input[2] * 100 * strengthX
                 /\ targetRotation'[2] = input[1] * 100 * strengthY]_vars

(* C19: while the state is EXPLODING a frame sets the position target of   *)
(* the group to (0, 0), whatever the pointer input and the position        *)
(* strengths are.                                                          *)
C19_NoPositionTargetExploding ==
    [][lastEvent' = "frame" /\ state = "EXPLODING" => targetPosition' = <<0, 0>>]_vars

(* With the setting, tilt is the input exactly while the feature is        *)
(* enabled and a valid reading has arrived since it was enabled.           *)
TiltExactlyWhenEnabledAndRead ==
    useDeviceOrientation <=> (deviceOrientationEnabled /\ readingSinceEnabled)

(* C20: getMouse returns the device orientation tilt only if the user has  *)
(* enabled the feature and a reading with non-null beta and gamma has      *)
(* arrived since it was enabled; in every other case it returns the        *)
(* pointer position.                                                       *)
C20_TiltOnlyWhenEnabled ==
    GetMouse = IF deviceOrientationEnabled /\ readingSinceEnabled
               THEN deviceOrientation
               ELSE mouse

AllFinite(p) == \A i \in 1 .. Len(p) : IsFinite(p[i])

(* With a zero radius and a positive height every sample is on the axis.   *)
ZeroRadiusOnAxis ==
    (lastEvent = "sample" /\ CONFIG.treeRadius = 0 /\ CONFIG.treeHeight > 0)
    => (/\ AllFinite(sampled)
        /\ sampled[1] = Num(0)
        /\ sampled[3] = Num(0))

(* C21: with a tree height of zero or a tree radius of zero every resting  *)
(* position the sampler returns has three finite coordinates: no NaN       *)
(* reaches a particle position.                                            *)
C21_DegenerateIsFinite ==
    (lastEvent = "sample" /\ (CONFIG.treeHeight = 0 \/ CONFIG.treeRadius = 0))
    => AllFinite(sampled)

HorizontalDistance(p) ==
    LET s == p[1][1] * p[1][1] + p[3][1] * p[3][1]
    IN  CHOOSE d \in 0 .. (Abs(p[1][1]) + Abs(p[3][1])) :
            d * d <= s /\ s < (d + 1) * (d + 1)

(* C23: with a positive tree height H and radius R every resting position  *)
(* the sampler returns has y between -H/2 and +H/2 and lies at a           *)
(* horizontal distance from the axis between 0.6 and 1.0 times             *)
(* ((H/2 - y)/H) R.                                                        *)
C23_ConeBand ==
    (lastEvent = "sample" /\ CONFIG.treeHeight > 0 /\ CONFIG.treeRadius > 0)
    => (/\ AllFinite(sampled)
        /\ LET H == CONFIG.treeHeight
               R == CONFIG.treeRadius
               y == sampled[2][1]
               d == HorizontalDistance(sampled)
           IN  /\ -H <= 2 * y /\ 2 * y <= H
               /\ 6 * (H - 2 * y) * R <= 10 * 2 * H * d
               /\ 10 * 2 * H * d <= 10 * (H - 2 * y) * R)

C23_Witness ==
    /\ lastEvent = "sample"
    /\ CONFIG.treeHeight = 400
    /\ CONFIG.treeRadius = 200
    /\ AllFinite(sampled)
    /\ sampled[2][1] < 0
    /\ sampled[3][1] < 0
    /\ 6 * (400 - 2 * sampled[2][1]) * 200 < 10 * 2 * 400 * HorizontalDistance(sampled)
    /\ 10 * 2 * 400 * HorizontalDistance(sampled) < 10 * (400 - 2 * sampled[2][1]) * 200

WithinShell(points, center, inner, outer) ==
    \A i \in 1 .. Len(points) :
        /\ inner * inner <= DistanceSq(points[i], center)
        /\ DistanceSq(points[i], center) <= outer * outer

(* With the inner radius not above the outer one, every generated point is *)
(* in the shell, and as many points are generated as were asked for.       *)
WithinShellWhenOrdered ==
    [][(/\ lastEvent' = "generate"
        /\ CONFIG.explosionInnerRadius <= CONFIG.explosionOuterRadius)
       => WithinShell(generated', OffsetCenter(ExplosionCenter),
                      CONFIG.explosionInnerRadius, CONFIG.explosionOuterRadius)]_vars

(* The zero-thickness shell: inner = outer, centre at the origin, no       *)
(* offset, one point asked for: one point, at that distance exactly.       *)
ZeroThicknessShell ==
    [][(/\ lastEvent' = "generate"
        /\ CONFIG.explosionInnerRadius = CONFIG.explosionOuterRadius
        /\ OffsetCenter(ExplosionCenter) = ZeroVector
        /\ Len(generated') = 1)
       => DistanceSq(generated'[1], ZeroVector)
              = CONFIG.explosionOuterRadius * CONFIG.explosionOuterRadius]_vars

(* C22: every point generateExplosionTargets returns lies at a distance r  *)
(* from the centre plus the offset with innerRadius <= r <= outerRadius,   *)
(* whatever the two radii are set to.                                      *)
C22_WithinShell ==
    [][lastEvent' = "generate"
       => WithinShell(generated', OffsetCenter(ExplosionCenter),
                      CONFIG.explosionInnerRadius, CONFIG.explosionOuterRadius)]_vars

Decayed(old, new) ==
    \A i \in 1 .. Len(old) :
        /\ new[i].individualParallaxShift[1]
               = Scale(old[i].individualParallaxShift[1], 95, 100)
        /\ new[i].individualParallaxShift[2]
               = Scale(old[i].individualParallaxShift[2], 95, 100)

(* In RETURNING, and in EXPLODING with the exploded parallax disabled, a   *)
(* frame multiplies every shift by 0.95.                                   *)
ShiftDecaysOutsideIdle ==
    [][(/\ lastEvent' = "frame"
        /\ \/ state = "RETURNING"
           \/ state = "EXPLODING" /\ ~CONFIG.explodedParallaxEnabled)
       => Decayed(particles, particles') /\ Decayed(testParticles, testParticles')]_vars

(* C26: a frame that finds the state not EXPLODING, or the exploded         *)
(* parallax disabled, multiplies each component of every particle's         *)
(* individual parallax shift by 0.95, in IDLE as well as in RETURNING.      *)
C26_ShiftDecays ==
    [][(/\ lastEvent' = "frame"
        /\ (state # "EXPLODING" \/ ~CONFIG.explodedParallaxEnabled))
       => Decayed(particles, particles') /\ Decayed(testParticles, testParticles')]_vars

(* C24: with frames running and animationSpeed in (0, 1], the state does   *)
(* not stay RETURNING for ever: it becomes IDLE unless a trigger starts a  *)
(* new explosion first; and an explosion is followed by IDLE unless a new  *)
(* explosion is triggered first.                                           *)
C24_ReturnsToIdle ==
    /\ [](state = "RETURNING" => <>(state = "IDLE" \/ lastEvent = "explode"))
    /\ []<>(state = "IDLE" \/ lastEvent = "explode")

C24_Witness ==
    /\ state = "RETURNING"
    /\ lastEvent = "frame"
    /\ CONFIG.animationSpeed = 50
    /\ \E i \in 1 .. Len(particles) : NotReturned(particles[i])

HoldPending == \E i \in 1 .. Len(timers) : timers[i].kind = "hold"

(* C25: a hold timer is pending exactly while the state is EXPLODING, so   *)
(* the hold callback only ever runs in the EXPLODING state.                *)
C25_HoldPendingIffExploding ==
    /\ [](state = "EXPLODING" <=> HoldPending)
    /\ [][lastEvent' = "hold" => state = "EXPLODING"]_vars

C25_Witness ==
    /\ lastEvent = "hold"
    /\ state = "RETURNING"
    /\ ~HoldPending
    /\ CONFIG.holdDuration = 4
    /\ showcaseImagesLoaded

(* C29: in v4 the reward image is visible only while the state is          *)
(* EXPLODING, under every timing of clicks relative to the image delay.    *)
C29_RewardOnlyExploding == rewardImageVisible => state = "EXPLODING"

(* C27: once the touch is released the velocity is multiplied by the       *)
(* friction factor in every frame and, unless a new touch begins, becomes  *)
(* exactly (0,0) while the vertical offset becomes exactly 0; the vertical *)
(* spring-back is applied in the frames where nothing is touching and in   *)
(* no other frame.                                                         *)
TouchAtRest == touchVelocity = <<0, 0>> /\ touchRotationOffset[2] = 0

FrictionEachFrame ==
    [][(lastEvent' = "frame" /\ ~isTouching)
          => /\ touchVelocity'[1] = Scale(touchVelocity[1], TouchSpinFriction, 100)
             /\ touchVelocity'[2] \in {0, Scale(touchVelocity[2], TouchSpinFriction, 100)}
             /\ Abs(touchVelocity'[1]) <= Abs(touchVelocity[1])
             /\ Abs(touchVelocity'[2]) <= Abs(touchVelocity[2])]_vars

SpringBackOnlyUntouched ==
    [][lastEvent' = "frame"
          => touchRotationOffset'[2] =
                 IF isTouching
                 THEN touchRotationOffset[2] + touchVelocity[2]
                 ELSE Scale(touchRotationOffset[2] + touchVelocity[2],
                            TouchTiltReturn, 100)]_vars

C27_TouchDecays ==
    /\ [](~isTouching => <>(isTouching \/ TouchAtRest))
    /\ FrictionEachFrame
    /\ SpringBackOnlyUntouched

C27_Witness ==
    /\ ~isTouching
    /\ lastEvent = "frame"
    /\ Abs(touchVelocity[1]) > 1
    /\ Abs(touchRotationOffset[2]) > 1
    /\ touchVelocity[2] = 0

(* C28: a mousedown or touchstart whose target lies inside the dat.GUI     *)
(* panel or the settings modal leaves the animation state, the pending     *)
(* timers, returnTimer and every parallax shift as they were.              *)
TriggerUntouched == UNCHANGED <<state, timers, returnTimer, particles, testParticles>>

MouseDownInPanelsIgnored ==
    [][\A target \in PanelTargets :
          PointerDown("mousedown", target) => TriggerUntouched]_vars

TouchStartInGuiIgnored ==
    [][PointerDown("touchstart", "gui") => TriggerUntouched]_vars

C28_PanelEventsIgnored ==
    [][\A type \in EventTypes, target \in PanelTargets :
          PointerDown(type, target) => TriggerUntouched]_vars

(* C30: the texture list holds only textures of the currently selected     *)
(* image set, and the set is marked as loaded only when the list holds one *)
(* of its textures.                                                        *)
C30_OnlyCurrentSet ==
    /\ \A i \in 1 .. Len(textureSets) :
          textureSets[i] # Null => textureSets[i] = <<currentImageSet>>
    /\ showcaseImagesLoaded =>
          \E i \in 1 .. Len(textureSets) : textureSets[i] = <<currentImageSet>>

====
